---- MODULE Spec2Model ----
(***************************************************************************)
(* Model of the workout duration-reduction engine of zwift_modifier:       *)
(* Workout / WorkoutSegment (models.py), the classifier (classifier.py),   *)
(* week selection (selector.py), the cut planner, validator and            *)
(* orchestrator of modifier.py, and the run of main (main.py).             *)
(* Spec and RampSpec follow one workout through the engine, RunSpec a run  *)
(* of main, CallSpec the classifier and the validator called on their own. *)
(*                                                                         *)
(* Powers are fractions of FTP in the source (0.65); the model keeps them  *)
(* as hundredths (65).  Optional fields that are None are None == -1.      *)
(***************************************************************************)
EXTENDS Integers, Sequences, FiniteSets, TLC

\* ---------------------------------------------------------------------------
\* Program constants (zwift_modifier/config.py)
\* ---------------------------------------------------------------------------
TARGET_WEEKDAY_DURATION == 4500
MIN_WARMUP_DURATION == 300
MIN_COOLDOWN_DURATION == 300
MIN_SEGMENT_DURATION == 60
SKIP_THRESHOLD_WORKOUTS == 5
ZONE_1_MAX == 55
ZONE_2_MAX == 75
ZONE_3_MAX == 90

None == -1

\* ---------------------------------------------------------------------------
\* Python float arithmetic of  int(duration * (cut / pool))
\* (modifier.py:168/172, 192/196, 210/214).  cut / pool is an IEEE-754
\* double (53 significant bits, round to nearest even), duration * ratio is
\* rounded again, int() truncates.  Naturals too wide for machine integers
\* are kept as sequences of 14-bit limbs, least significant limb first.
\* ---------------------------------------------------------------------------
MANT_DIG == 53
LIMB_BITS == 14
LIMB == 2 ^ LIMB_BITS

RECURSIVE LeadingZeros(_, _)
\* number of 0 bits after the binary point of r / e before the first 1 (0 < r < e)
LeadingZeros(r, e) == IF 2 * r >= e THEN 0 ELSE 1 + LeadingZeros(2 * r, e)

RECURSIVE NatBitLen(_)
NatBitLen(n) == IF n = 0 THEN 0 ELSE 1 + NatBitLen(n \div 2)

RECURSIVE LimbsInc(_)
\* limbs + 1
LimbsInc(limbs) ==
    IF limbs = <<>> THEN <<1>>
    ELSE IF Head(limbs) + 1 < LIMB THEN <<Head(limbs) + 1>> \o Tail(limbs)
    ELSE <<0>> \o LimbsInc(Tail(limbs))

RECURSIVE LimbsMul(_, _, _)
\* limbs * d + carry
LimbsMul(limbs, d, carry) ==
    IF limbs = <<>>
    THEN IF carry = 0 THEN <<>>
         ELSE <<carry % LIMB>> \o LimbsMul(<<>>, d, carry \div LIMB)
    ELSE LET t == Head(limbs) * d + carry
         IN  <<t % LIMB>> \o LimbsMul(Tail(limbs), d, t \div LIMB)

RECURSIVE LimbsNat(_)
LimbsNat(limbs) ==
    IF limbs = <<>> THEN 0 ELSE Head(limbs) + LIMB * LimbsNat(Tail(limbs))

\* number of significant bits (the top limb is not 0)
LimbsBitLen(limbs) ==
    IF limbs = <<>> THEN 0
    ELSE LIMB_BITS * (Len(limbs) - 1) + NatBitLen(limbs[Len(limbs)])

\* bit i (from 0) of limbs
LimbsBit(limbs, i) ==
    (limbs[(i \div LIMB_BITS) + 1] \div (2 ^ (i % LIMB_BITS))) % 2

\* limbs shifted right by s bits
LimbsShr(limbs, s) ==
    LET k == s \div LIMB_BITS
        b == s % LIMB_BITS
        rest == SubSeq(limbs, k + 1, Len(limbs))
    IN  [i \in 1..Len(rest) |->
            (rest[i] \div (2 ^ b))
              + (IF i < Len(rest)
                 THEN (rest[i + 1] % (2 ^ b)) * (2 ^ (LIMB_BITS - b))
                 ELSE 0)]

\* round a natural to MANT_DIG significant bits, ties to even; the result is
\* [limbs, shift] standing for limbs * 2^shift
RoundLimbs(limbs) ==
    LET t == LimbsBitLen(limbs) - MANT_DIG
    IN  IF t <= 0 THEN [limbs |-> limbs, shift |-> 0]
        ELSE LET kept   == LimbsShr(limbs, t)
                 guard  == LimbsBit(limbs, t - 1)
                 sticky == \E i \in 0..(t - 2) : LimbsBit(limbs, i) = 1
                 up     == guard = 1 /\ (sticky \/ LimbsBit(limbs, t) = 1)
             IN  [limbs |-> IF up THEN LimbsInc(kept) ELSE kept, shift |-> t]

\* the double nearest to c / e, as [limbs, scale] standing for
\* limbs / 2^scale (0 < c < e < 2^17).  The 53 bits after the leading zeros
\* are produced by long division, 11 bits and then three times 14 bits.
FloatDiv(c, e) ==
    LET z  == LeadingZeros(c, e)
        r0 == c * (2 ^ z)
        n1 == r0 * (2 ^ (MANT_DIG - 3 * LIMB_BITS))
        n2 == (n1 % e) * LIMB
        n3 == (n2 % e) * LIMB
        n4 == (n3 % e) * LIMB
        mant  == <<n4 \div e, n3 \div e, n2 \div e, n1 \div e>>
        rem   == n4 % e
        guard == IF 2 * rem >= e THEN 1 ELSE 0
        rest  == 2 * rem - guard * e
        up    == guard = 1 /\ (rest # 0 \/ mant[1] % 2 = 1)
    IN  [limbs |-> IF up THEN LimbsInc(mant) ELSE mant, scale |-> z + MANT_DIG]

\* int(d * (c / e)) for 0 <= d < 2^16, 0 < c <= e
FloatMulTrunc(d, c, e) ==
    IF d = 0 THEN 0
    ELSE IF c = e THEN d
    ELSE LET q == FloatDiv(c, e)
             p == RoundLimbs(LimbsMul(q.limbs, d, 0))
         IN  LimbsNat(LimbsShr(p.limbs, q.scale - p.shift))

\* ---------------------------------------------------------------------------
\* Data model (models.py)
\* ---------------------------------------------------------------------------
\* WorkoutSegment(xml_type, duration, **kind-specific fields); fields that are
\* not given keep their dataclass default None
WorkoutSegment(xml_type, duration, power, power_low, power_high, repeat, on_duration, off_duration, on_power, off_power) ==
    [xml_type |-> xml_type, duration |-> duration,
     power |-> power, cadence |-> None,
     power_low |-> power_low, power_high |-> power_high,
     repeat |-> repeat, on_duration |-> on_duration,
     off_duration |-> off_duration,
     on_power |-> on_power, off_power |-> off_power]

\* Python truthiness of an Optional number: None and 0 are both falsy
Truthy(x) == x # None /\ x # 0

\* `x or 0`
OrZero(x) == IF Truthy(x) THEN x ELSE 0

RECURSIVE SumSeq(_)
SumSeq(s) == IF s = <<>> THEN 0 ELSE Head(s) + SumSeq(Tail(s))

\* contribution of one segment to Workout.calculate_total_duration
SegTotalTerm(seg) ==
    IF seg.xml_type = "IntervalsT" /\ Truthy(seg.repeat)
    THEN seg.repeat * (OrZero(seg.on_duration) + OrZero(seg.off_duration))
    ELSE seg.duration

\* Workout.calculate_total_duration: the value it stores in total_duration
calculate_total_duration(segments) ==
    SumSeq([i \in 1..Len(segments) |-> SegTotalTerm(segments[i])])

\* Workout without the recomputation of __post_init__: the durations passed
\* are stored as they are
Workout_NoRecompute(segments, total_duration, original_duration, is_weekend_ride, should_skip, modification_status, skip_reason) ==
    [segments |-> segments,
     total_duration |-> total_duration,
     original_duration |-> original_duration,
     is_weekend_ride |-> is_weekend_ride,
     should_skip |-> should_skip,
     modification_status |-> modification_status,
     skip_reason |-> skip_reason]

\* Workout.__init__ + __post_init__: total_duration is recomputed from the
\* segments whatever was passed; original_duration is taken from it only
\* when it was passed as 0.  skip_reason None is the empty string.
Workout(segments, total_duration, original_duration, is_weekend_ride, should_skip, modification_status, skip_reason) ==
    LET total == calculate_total_duration(segments)
    IN  [segments |-> segments,
         total_duration |-> total,
         original_duration |-> IF original_duration = 0 THEN total
                               ELSE original_duration,
         is_weekend_ride |-> is_weekend_ride,
         should_skip |-> should_skip,
         modification_status |-> modification_status,
         skip_reason |-> skip_reason]

\* WorkoutSegment.copy
SegmentCopy(seg) ==
    [xml_type |-> seg.xml_type, duration |-> seg.duration,
     power |-> seg.power, cadence |-> seg.cadence,
     power_low |-> seg.power_low, power_high |-> seg.power_high,
     repeat |-> seg.repeat, on_duration |-> seg.on_duration,
     off_duration |-> seg.off_duration,
     on_power |-> seg.on_power, off_power |-> seg.off_power]

\* Workout.copy: a new Workout built from the fields (so __post_init__ runs)
WorkoutCopy(w) ==
    Workout([i \in 1..Len(w.segments) |-> SegmentCopy(w.segments[i])],
            w.total_duration, w.original_duration,
            w.is_weekend_ride, w.should_skip, w.modification_status,
            w.skip_reason)

\* ---------------------------------------------------------------------------
\* classifier.py
\* ---------------------------------------------------------------------------
classify_segment(segment) ==
    CASE segment.xml_type = "Warmup"     -> "warmup"
      [] segment.xml_type = "Cooldown"   -> "cooldown"
      [] segment.xml_type = "IntervalsT" -> "interval"
      [] segment.xml_type = "FreeRide"   -> "recovery"
      [] segment.xml_type = "Ramp" ->
            IF Truthy(segment.power_low) /\ Truthy(segment.power_high)
            THEN IF segment.power_low < segment.power_high
                 THEN "warmup" ELSE "cooldown"
            ELSE "unknown"
      [] segment.xml_type = "SteadyState" ->
            LET power == OrZero(segment.power)
            IN  IF power < ZONE_1_MAX THEN "recovery"
                ELSE IF power < ZONE_3_MAX THEN "endurance"
                ELSE "interval"
      [] OTHER -> "unknown"

\* Powers are hundredths of FTP; the quotients the classifier forms are kept
\* exact, as fractions <<numerator, denominator>> in lowest terms with a
\* positive denominator.
RECURSIVE Gcd(_, _)
Gcd(a, b) == IF b = 0 THEN a ELSE Gcd(b, a % b)

Frac(n, d) ==
    LET g == Gcd(IF n < 0 THEN -n ELSE n, d)
    IN  <<n \div g, d \div g>>

FracAdd(x, y) == Frac(x[1] * y[2] + y[1] * x[2], x[2] * y[2])

FracScale(x, k) == Frac(x[1] * k, x[2])

FracLess(x, y) == x[1] * y[2] < y[1] * x[2]

RECURSIVE FracSum(_)
FracSum(s) == IF s = <<>> THEN <<0, 1>> ELSE FracAdd(Head(s), FracSum(Tail(s)))

\* WorkoutSegment.get_effective_power
get_effective_power(seg) ==
    IF seg.power # None THEN <<seg.power, 1>>
    ELSE IF seg.power_low # None /\ seg.power_high # None
    THEN Frac(seg.power_low + seg.power_high, 2)
    ELSE IF seg.on_power # None /\ seg.off_power # None
    THEN IF Truthy(seg.on_duration) /\ Truthy(seg.off_duration)
         THEN Frac(seg.on_power * seg.on_duration
                     + seg.off_power * seg.off_duration,
                   seg.on_duration + seg.off_duration)
         ELSE Frac(seg.on_power + seg.off_power, 2)
    ELSE <<0, 1>>

\* calculate_average_power: one segment's share of total_power_time
PowerTimeTerm(seg) ==
    IF seg.xml_type = "IntervalsT" /\ Truthy(seg.repeat)
    THEN <<(IF Truthy(seg.on_power) /\ Truthy(seg.on_duration)
            THEN seg.on_power * seg.on_duration * seg.repeat ELSE 0)
           + (IF Truthy(seg.off_power) /\ Truthy(seg.off_duration)
              THEN seg.off_power * seg.off_duration * seg.repeat ELSE 0), 1>>
    ELSE IF get_effective_power(seg)[1] > 0
    THEN FracScale(get_effective_power(seg), seg.duration)
    ELSE <<0, 1>>

\* calculate_average_power: one segment's share of total_duration
PowerDurationTerm(seg) ==
    IF seg.xml_type = "IntervalsT" /\ Truthy(seg.repeat)
    THEN (IF Truthy(seg.on_power) /\ Truthy(seg.on_duration)
          THEN seg.on_duration * seg.repeat ELSE 0)
         + (IF Truthy(seg.off_power) /\ Truthy(seg.off_duration)
            THEN seg.off_duration * seg.repeat ELSE 0)
    ELSE IF get_effective_power(seg)[1] > 0 THEN seg.duration
    ELSE 0

\* the pair it returns the quotient of
AveragePowerParts(segments) ==
    [power_time |-> FracSum([i \in 1..Len(segments) |->
                                PowerTimeTerm(segments[i])]),
     duration |-> SumSeq([i \in 1..Len(segments) |->
                             PowerDurationTerm(segments[i])])]

AveragePowerOf(parts) ==
    IF parts.duration = 0 THEN <<0, 1>>
    ELSE Frac(parts.power_time[1], parts.power_time[2] * parts.duration)

calculate_average_power(segments) ==
    AveragePowerOf(AveragePowerParts(segments))

\* classify_from_segments: what one segment adds to high_intensity_duration
HighIntensityTerm(seg) ==
    IF seg.xml_type = "IntervalsT"
    THEN IF Truthy(seg.on_power) /\ seg.on_power >= ZONE_3_MAX
         THEN OrZero(seg.on_duration)
                * (IF Truthy(seg.repeat) THEN seg.repeat ELSE 1)
         ELSE 0
    ELSE IF ~FracLess(get_effective_power(seg), <<ZONE_3_MAX, 1>>)
    THEN seg.duration
    ELSE 0

\* classify_from_segments: what one segment adds to low_intensity_duration
LowIntensityTerm(seg) ==
    IF seg.xml_type = "IntervalsT" THEN 0
    ELSE IF ~FracLess(get_effective_power(seg), <<ZONE_3_MAX, 1>>) THEN 0
    ELSE IF FracLess(get_effective_power(seg), <<ZONE_2_MAX, 1>>)
    THEN seg.duration
    ELSE 0

\* the branch on the average power (classifier.py:115-122)
ClassifyByAveragePower(avg_power) ==
    IF FracLess(avg_power, <<ZONE_1_MAX, 1>>) THEN "recovery"
    ELSE IF FracLess(avg_power, <<ZONE_2_MAX, 1>>) THEN "endurance"
    ELSE "mixed"

\* the classification logic on the ratios (classifier.py:101-113):
\* intensity_ratio > 0.15, low_ratio > 0.8, low_ratio > 0.9
ClassifyByRatios(segments, total_duration, has_intervals, high, low) ==
    IF has_intervals \/ 100 * high > 15 * total_duration THEN "interval"
    ELSE IF total_duration > 5400 /\ 10 * low > 8 * total_duration
    THEN "endurance"
    ELSE IF total_duration < 3600 /\ 10 * low > 9 * total_duration
    THEN "recovery"
    ELSE ClassifyByAveragePower(calculate_average_power(segments))

\* the classification without the early return on an empty list or a total
\* of 0
classify_from_segments_NoEarlyReturn(segments, total_duration) ==
    ClassifyByRatios(
        segments, total_duration,
        \E i \in 1..Len(segments) : segments[i].xml_type = "IntervalsT",
        SumSeq([i \in 1..Len(segments) |-> HighIntensityTerm(segments[i])]),
        SumSeq([i \in 1..Len(segments) |-> LowIntensityTerm(segments[i])]))

\* classify_from_segments (classifier.py:68-122)
classify_from_segments(segments, total_duration) ==
    IF segments = <<>> \/ total_duration = 0 THEN "mixed"
    ELSE ClassifyByRatios(
             segments, total_duration,
             \E i \in 1..Len(segments) : segments[i].xml_type = "IntervalsT",
             SumSeq([i \in 1..Len(segments) |-> HighIntensityTerm(segments[i])]),
             SumSeq([i \in 1..Len(segments) |-> LowIntensityTerm(segments[i])]))

\* classify_from_filename: the filename is kept as the set of keyword
\* families (the keys of FILENAME_KEYWORDS) one of whose keywords it
\* contains; the first family in the dict's order wins
classify_from_filename(filename) ==
    IF "recovery" \in filename THEN "recovery"
    ELSE IF "endurance" \in filename THEN "endurance"
    ELSE IF "interval" \in filename THEN "interval"
    ELSE "mixed"

\* the decision with the segment analysis ahead of the filename
ClassifyDecision_SegmentsFirst(filename_class, segment_class) ==
    IF segment_class # "mixed" THEN segment_class ELSE filename_class

\* the decision of classify_workout on the two partial classifications
ClassifyDecision(filename_class, segment_class) ==
    IF filename_class \in {"recovery", "interval"} THEN filename_class
    ELSE IF filename_class = "endurance" /\ segment_class = "interval"
    THEN "interval"
    ELSE IF segment_class # "mixed" THEN segment_class
    ELSE filename_class

\* classify_workout: the value it stores in workout.classification
classify_workout(filename, w) ==
    ClassifyDecision(classify_from_filename(filename),
                     classify_from_segments(w.segments, w.total_duration))

\* calculate_difficulty_score, exact: with powers in hundredths the score is
\* (sum of power x duration) / 600000 + interval_count / 10 when
\* total_duration > 0 and interval_count / 10 otherwise; the value kept is
\* the score times 600000
calculate_difficulty_score(w) ==
    FracAdd(
        IF w.total_duration > 0
        THEN FracSum([i \in 1..Len(w.segments) |->
                         FracScale(get_effective_power(w.segments[i]),
                                   w.segments[i].duration)])
        ELSE <<0, 1>>,
        <<60000 * Cardinality({i \in 1..Len(w.segments) :
                                  w.segments[i].xml_type = "IntervalsT"}), 1>>)

\* ---------------------------------------------------------------------------
\* selector.py
\* ---------------------------------------------------------------------------
\* the decision with the duration test ahead of the skip test
determine_modification_action_TargetFirst(workout, target_duration) ==
    IF workout.total_duration <= target_duration THEN "keep_unchanged"
    ELSE IF workout.should_skip THEN "skip"
    ELSE IF workout.is_weekend_ride THEN "keep_unchanged"
    ELSE "shorten"

\* the decision without the protected-ride test
determine_modification_action_NoWeekend(workout, target_duration) ==
    IF workout.should_skip THEN "skip"
    ELSE IF workout.total_duration <= target_duration THEN "keep_unchanged"
    ELSE "shorten"

\* the decision with the protected ride skipped instead of kept
determine_modification_action_WeekendSkip(workout, target_duration) ==
    IF workout.should_skip THEN "skip"
    ELSE IF workout.is_weekend_ride THEN "skip"
    ELSE IF workout.total_duration <= target_duration THEN "keep_unchanged"
    ELSE "shorten"

determine_modification_action(workout, target_duration) ==
    IF workout.should_skip THEN "skip"
    ELSE IF workout.is_weekend_ride THEN "keep_unchanged"
    ELSE IF workout.total_duration <= target_duration THEN "keep_unchanged"
    ELSE "shorten"

\* A workout as the selector sees it: the identity fields of Workout
\* (filename, week_number, day_number), the two fields classification and
\* scoring fill in (dataclass defaults 'mixed' and 0.0), and the fields the
\* engine works on (segments, durations, flags, status) under `workout`.
\* The filename is kept as [index, keywords]: its place in the directory and
\* the keyword families of FILENAME_KEYWORDS it contains.
ScannedWorkout(filename, week_number, day_number, w) ==
    [filename |-> filename, week_number |-> week_number,
     day_number |-> day_number, classification |-> "mixed",
     difficulty_score |-> <<0, 1>>, workout |-> w]

\* for workout in week_workouts: classify_workout(workout);
\* calculate_difficulty_score(workout)   (selector.py:90-92, 172-174)
ClassifyAndScore(week_workouts) ==
    [i \in 1..Len(week_workouts) |->
        [week_workouts[i] EXCEPT
            !.classification =
                classify_workout(week_workouts[i].filename.keywords,
                                 week_workouts[i].workout),
            !.difficulty_score =
                calculate_difficulty_score(week_workouts[i].workout)]]

RECURSIVE InsertByDay(_, _)
\* e put into a list sorted by day_number, after the entries of its own day
InsertByDay(sorted, e) ==
    IF sorted = <<>> THEN <<e>>
    ELSE IF e.day_number < Head(sorted).day_number THEN <<e>> \o sorted
    ELSE <<Head(sorted)>> \o InsertByDay(Tail(sorted), e)

RECURSIVE SortByDay(_)
\* list.sort(key=lambda w: w.day_number): stable
SortByDay(list) ==
    IF list = <<>> THEN <<>>
    ELSE InsertByDay(SortByDay(SubSeq(list, 1, Len(list) - 1)),
                     list[Len(list)])

\* group_by_week: week number -> the week's workouts, sorted by day number
group_by_week(workouts) ==
    [week_num \in {workouts[i].week_number : i \in 1..Len(workouts)} |->
        SortByDay(SelectSeq(workouts,
                            LAMBDA w : w.week_number = week_num))]

\* sorted(week_workouts, key=day_number)[-1]: the place in week_workouts of
\* the last workout of the highest day number
LastWorkoutIndex(week_workouts) ==
    CHOOSE i \in 1..Len(week_workouts) :
        \A j \in 1..Len(week_workouts) :
            \/ week_workouts[j].day_number < week_workouts[i].day_number
            \/ (week_workouts[j].day_number = week_workouts[i].day_number
                  /\ j <= i)

\* max(week_workouts, key=total_duration): the first workout of the maximum
\* duration
LongestWorkoutIndex(week_workouts) ==
    CHOOSE i \in 1..Len(week_workouts) :
        \A j \in 1..Len(week_workouts) :
            \/ week_workouts[j].workout.total_duration
                 < week_workouts[i].workout.total_duration
            \/ (week_workouts[j].workout.total_duration
                  = week_workouts[i].workout.total_duration /\ i <= j)

\* the choice of identify_weekend_ride (selector.py:52-71); the comparison
\* is with the name TARGET_WEEKDAY_DURATION that selector.py imported
WeekendRideIndex(week_workouts) ==
    LET last == LastWorkoutIndex(week_workouts)
        longest == LongestWorkoutIndex(week_workouts)
    IN  IF week_workouts[last].workout.total_duration >= 5400 THEN last
        ELSE IF week_workouts[longest].workout.total_duration
                  > TARGET_WEEKDAY_DURATION
        THEN longest
        ELSE last

\* the week with is_weekend_ride set on one more workout
MarkWeekendRide(week_workouts, i) ==
    [week_workouts EXCEPT ![i].workout.is_weekend_ride = TRUE]

\* identify_weekend_ride marking every workout of the last day
identify_weekend_ride_MarksLastDay(week_workouts) ==
    [i \in 1..Len(week_workouts) |->
        IF week_workouts[i].day_number
             = week_workouts[LastWorkoutIndex(week_workouts)].day_number
        THEN [week_workouts[i] EXCEPT !.workout.is_weekend_ride = TRUE]
        ELSE week_workouts[i]]

\* identify_weekend_ride: the week as the call leaves it
identify_weekend_ride(week_workouts) ==
    IF week_workouts = <<>> THEN week_workouts
    ELSE MarkWeekendRide(week_workouts,
                         WeekendRideIndex(week_workouts))

\* pool.sort(key=difficulty_score); pool[0]: the first workout of the
\* lowest score among those of the pool (a set of places in the week)
LightestIndex(week_workouts, pool) ==
    CHOOSE i \in pool :
        \A j \in pool :
            \/ FracLess(week_workouts[i].difficulty_score,
                        week_workouts[j].difficulty_score)
            \/ (week_workouts[i].difficulty_score
                  = week_workouts[j].difficulty_score /\ i <= j)

\* recovery_workouts (selector.py:95-98)
RecoveryPool(week_workouts) ==
    {i \in 1..Len(week_workouts) :
        /\ week_workouts[i].classification = "recovery"
        /\ ~week_workouts[i].workout.is_weekend_ride}

\* candidates (selector.py:109-112)
SkipCandidates(week_workouts) ==
    {i \in 1..Len(week_workouts) :
        /\ ~week_workouts[i].workout.is_weekend_ride
        /\ week_workouts[i].classification # "interval"}

\* to_skip.should_skip = True; to_skip.skip_reason = reason
MarkSkip(week_workouts, i, reason) ==
    [week_workouts EXCEPT ![i].workout.should_skip = TRUE,
                          ![i].workout.skip_reason = reason]

\* the body of identify_workouts_to_skip on the classified week
\* (selector.py:94-123)
ChooseSkip(week_workouts) ==
    IF RecoveryPool(week_workouts) # {}
    THEN MarkSkip(week_workouts,
                  LightestIndex(week_workouts, RecoveryPool(week_workouts)),
                  "Recovery workout in high-volume week")
    ELSE IF SkipCandidates(week_workouts) # {}
    THEN MarkSkip(week_workouts,
                  LightestIndex(week_workouts, SkipCandidates(week_workouts)),
                  "Lightest workout in high-volume week")
    ELSE week_workouts

\* the threshold test of identify_workouts_to_skip (selector.py:86); the
\* comparison is with the name SKIP_THRESHOLD_WORKOUTS that selector.py
\* imported
SkipTriggered(week_workouts) ==
    Len(week_workouts) >= SKIP_THRESHOLD_WORKOUTS

\* identify_workouts_to_skip: the week as the call leaves it
identify_workouts_to_skip(week_workouts) ==
    IF ~SkipTriggered(week_workouts) THEN week_workouts
    ELSE ChooseSkip(ClassifyAndScore(week_workouts))

\* process_week_selection with the skip selection ahead of the weekend ride
process_week_selection_SkipFirst(week_workouts, target_duration) ==
    IF week_workouts = <<>> THEN week_workouts
    ELSE identify_weekend_ride(
             identify_workouts_to_skip(ClassifyAndScore(week_workouts)))

\* process_week_selection: the week as the call leaves it; target_duration
\* is accepted and not used (selector.py:155-180)
process_week_selection(week_workouts, target_duration) ==
    IF week_workouts = <<>> THEN week_workouts
    ELSE identify_workouts_to_skip(
             identify_weekend_ride(ClassifyAndScore(week_workouts)))

\* ---------------------------------------------------------------------------
\* modifier.py: cut planner
\* ---------------------------------------------------------------------------
\* identify_cuttable_segments: is this segment put on the cuttable list
IsCuttable(segment) ==
    LET seg_type == classify_segment(segment)
    IN  IF segment.xml_type = "IntervalsT" THEN FALSE
        ELSE IF seg_type = "interval" THEN FALSE
        ELSE IF seg_type = "endurance" THEN TRUE
        ELSE IF seg_type = "warmup" THEN TRUE
        ELSE IF seg_type = "cooldown" THEN TRUE
        ELSE FALSE

\* sum(s.duration for s in cuttable_segments if classify_segment(s) == kind)
PoolDuration(segments, kind) ==
    SumSeq([i \in 1..Len(segments) |->
              IF IsCuttable(segments[i]) /\ classify_segment(segments[i]) = kind
              THEN segments[i].duration ELSE 0])

\* sum(seg.duration for seg in cuttable_segments)
CuttableDuration(segments) ==
    SumSeq([i \in 1..Len(segments) |->
              IF IsCuttable(segments[i]) THEN segments[i].duration ELSE 0])

Min(a, b) == IF a <= b THEN a ELSE b
Max(a, b) == IF a >= b THEN a ELSE b

calculate_cut_requirements(workout, target_duration) ==
    LET current_duration == workout.total_duration
        time_to_cut == current_duration - target_duration
        cuttable_duration == CuttableDuration(workout.segments)
        warmup_duration == PoolDuration(workout.segments, "warmup")
        cooldown_duration == PoolDuration(workout.segments, "cooldown")
        min_warmup == Min(MIN_WARMUP_DURATION, warmup_duration)
        min_cooldown == Min(MIN_COOLDOWN_DURATION, cooldown_duration)
        max_cuttable == cuttable_duration - min_warmup - min_cooldown
    IN  IF time_to_cut <= 0
        THEN [current_duration |-> current_duration,
              target_duration |-> target_duration,
              time_to_cut |-> 0, cuttable_duration |-> 0,
              max_cuttable |-> 0, is_feasible |-> TRUE]
        ELSE [current_duration |-> current_duration,
              target_duration |-> target_duration,
              time_to_cut |-> time_to_cut,
              cuttable_duration |-> cuttable_duration,
              max_cuttable |-> Max(0, max_cuttable),
              is_feasible |-> time_to_cut <= max_cuttable]

\* one step of the endurance loop (modifier.py:171-181): the duration the
\* segment is left with; a segment that would fall under MIN_SEGMENT_DURATION
\* is zeroed
EnduranceNewDuration(duration, endurance_cut, endurance_duration) ==
    LET reduction == FloatMulTrunc(duration, endurance_cut, endurance_duration)
        new_duration == duration - reduction
    IN  IF new_duration < MIN_SEGMENT_DURATION THEN 0 ELSE new_duration

\* the warmup step with the floor put on the reduction instead of on the
\* duration left
WarmupNewDuration_ClampReduction(duration, warmup_cut, warmup_duration) ==
    LET reduction == FloatMulTrunc(duration, warmup_cut, warmup_duration)
    IN  duration - Max(MIN_WARMUP_DURATION, reduction)

\* one step of the warmup loop (modifier.py:195-199)
WarmupNewDuration(duration, warmup_cut, warmup_duration) ==
    LET reduction == FloatMulTrunc(duration, warmup_cut, warmup_duration)
    IN  Max(MIN_WARMUP_DURATION, duration - reduction)

\* one step of the cooldown loop (modifier.py:213-217)
CooldownNewDuration(duration, cooldown_cut, cooldown_duration) ==
    LET reduction == FloatMulTrunc(duration, cooldown_cut, cooldown_duration)
    IN  Max(MIN_COOLDOWN_DURATION, duration - reduction)

\* the loop of one pass over the segments of its pool, in workout order; the
\* pool lists hold the workout's own segment objects, so the workout's
\* segments change
CutPass(segments, kind, cut, pool) ==
    [i \in 1..Len(segments) |->
        IF IsCuttable(segments[i]) /\ classify_segment(segments[i]) = kind
        THEN [segments[i] EXCEPT !.duration =
                CASE kind = "endurance" ->
                        EnduranceNewDuration(segments[i].duration, cut, pool)
                  [] kind = "warmup" ->
                        WarmupNewDuration(segments[i].duration, cut, pool)
                  [] kind = "cooldown" ->
                        CooldownNewDuration(segments[i].duration, cut, pool)]
        ELSE segments[i]]

\* actual_cut of a pass: the sum over the pool of duration before - after
ActualCut(before, after, kind) ==
    PoolDuration(before, kind) - PoolDuration(after, kind)

\* workout.segments = [s for s in workout.segments if s.duration > 0]
RemoveZeroDuration(segments) ==
    SelectSeq(segments, LAMBDA s : s.duration > 0)

\* guards of the three passes (modifier.py:166, 187, 205)
RunEndurance(endurance_duration, remaining_cut) ==
    endurance_duration > 0 /\ remaining_cut > 0

RunWarmup(warmup_duration, remaining_cut) ==
    remaining_cut > 0 /\ warmup_duration > MIN_WARMUP_DURATION

RunCooldown(cooldown_duration, remaining_cut) ==
    remaining_cut > 0 /\ cooldown_duration > MIN_COOLDOWN_DURATION

\* remaining_cut left as it was after a pass
RemainingCut_NotSubtracted(remaining_cut, actual_cut) == remaining_cut

\* remaining_cut -= actual_cut (modifier.py:183, 201, 219)
RemainingCut(remaining_cut, actual_cut) == remaining_cut - actual_cut

NoWarning == [kind |-> "none", minutes |-> 0]
\* "Could not reach target; cut maximum possible"
InfeasibleWarning == [kind |-> "infeasible", minutes |-> 0]
\* f"Final duration {total_duration // 60}min exceeds target"
ExceedsWarning(total_duration) ==
    [kind |-> "exceeds", minutes |-> total_duration \div 60]
\* "VALIDATION FAILED: Intervals may have been modified"
ValidationWarning == [kind |-> "validation", minutes |-> 0]

ModificationResult(status, original_duration, new_duration, time_saved, reason, warning, segments_cut) ==
    [status |-> status, original_duration |-> original_duration,
     new_duration |-> new_duration, time_saved |-> time_saved,
     reason |-> reason, warning |-> warning, segments_cut |-> segments_cut]

\* the dict {} of ModificationResult.segments_cut
EmptyCut == [k \in {} |-> 0]

\* what the three passes hand on: the workout's segments, remaining_cut and
\* result.segments_cut
PassState(segments, remaining_cut, segments_cut) ==
    [segments |-> segments, remaining_cut |-> remaining_cut,
     segments_cut |-> segments_cut]

\* the end of a pass (modifier.py:183-184, 201-202, 219-220):
\* remaining_cut -= actual_cut; result.segments_cut[kind] = actual_cut
PassDone(st, kind, after) ==
    LET actual_cut == ActualCut(st.segments, after, kind)
    IN  PassState(after, RemainingCut(st.remaining_cut, actual_cut),
                  (kind :> actual_cut) @@ st.segments_cut)

\* Step 1: cut from endurance segments (modifier.py:165-184)
EndurancePass(st, endurance_duration) ==
    IF RunEndurance(endurance_duration, st.remaining_cut)
    THEN PassDone(st, "endurance",
                  CutPass(st.segments, "endurance",
                          Min(st.remaining_cut, endurance_duration),
                          endurance_duration))
    ELSE st

\* Step 2: cut from warmup (modifier.py:186-202)
WarmupPass(st, warmup_duration) ==
    LET available_warmup_cut == warmup_duration - MIN_WARMUP_DURATION
        warmup_cut == Min(st.remaining_cut, available_warmup_cut)
    IN  IF RunWarmup(warmup_duration, st.remaining_cut) /\ warmup_cut > 0
        THEN PassDone(st, "warmup",
                      CutPass(st.segments, "warmup", warmup_cut,
                              warmup_duration))
        ELSE st

\* Step 3: cut from cooldown (modifier.py:204-220)
CooldownPass(st, cooldown_duration) ==
    LET available_cooldown_cut == cooldown_duration - MIN_COOLDOWN_DURATION
        cooldown_cut == Min(st.remaining_cut, available_cooldown_cut)
    IN  IF RunCooldown(cooldown_duration, st.remaining_cut) /\ cooldown_cut > 0
        THEN PassDone(st, "cooldown",
                      CutPass(st.segments, "cooldown", cooldown_cut,
                              cooldown_duration))
        ELSE st

\* the end of apply_proportional_cuts with the status set only when the
\* target was reached: otherwise the workout keeps the status it had
CutResult_PartialStatus(workout, target_duration, cut_info, st) ==
    LET original_duration == workout.original_duration
        final == RemoveZeroDuration(st.segments)
        total == calculate_total_duration(final)
        reached == total <= target_duration
    IN  [workout |-> [workout EXCEPT !.segments = final,
                                     !.total_duration = total,
                                     !.modification_status =
                                         IF reached THEN "modified" ELSE @],
         result |-> ModificationResult(
                        IF reached THEN "modified" ELSE "unchanged",
                        original_duration, total, original_duration - total,
                        "", IF reached THEN NoWarning ELSE InfeasibleWarning,
                        st.segments_cut)]

\* the end of apply_proportional_cuts (modifier.py:222-244): zero-duration
\* segments are removed, the total is recomputed, the result is filled in
CutResult(workout, target_duration, cut_info, st) ==
    LET original_duration == workout.original_duration
        final == RemoveZeroDuration(st.segments)
        total == calculate_total_duration(final)
        warning == IF ~cut_info.is_feasible THEN InfeasibleWarning
                   ELSE IF total > target_duration THEN ExceedsWarning(total)
                   ELSE NoWarning
    IN  [workout |-> [workout EXCEPT !.segments = final,
                                     !.total_duration = total,
                                     !.modification_status = "modified"],
         result |-> ModificationResult("modified", original_duration,
                        total, original_duration - total, "", warning,
                        st.segments_cut)]

\* apply_proportional_cuts: the workout as the call leaves it (it is changed
\* in place) and the result returned.  The three pool durations are taken
\* before the first pass (modifier.py:161-163).
apply_proportional_cuts(workout, target_duration) ==
    LET cut_info == calculate_cut_requirements(workout, target_duration)
    IN  IF cut_info.time_to_cut <= 0
        THEN [workout |-> workout,
              result |-> ModificationResult("unchanged",
                             workout.original_duration,
                             workout.total_duration, 0, "", NoWarning,
                             EmptyCut)]
        ELSE CutResult(workout, target_duration, cut_info,
                 CooldownPass(
                     WarmupPass(
                         EndurancePass(
                             PassState(workout.segments,
                                       cut_info.time_to_cut, EmptyCut),
                             PoolDuration(workout.segments, "endurance")),
                         PoolDuration(workout.segments, "warmup")),
                     PoolDuration(workout.segments, "cooldown")))

\* ---------------------------------------------------------------------------
\* modifier.py: validator
\* ---------------------------------------------------------------------------
\* get_intervals
get_intervals(workout) ==
    SelectSeq(workout.segments,
              LAMBDA s : s.xml_type = "IntervalsT"
                           \/ classify_segment(s) = "interval")

\* the comparison with duration and power compared for every pair
IntervalPairSame_SteadyOnly(orig, mod) ==
    ~(orig.duration # mod.duration) /\ ~(orig.power # mod.power)

\* the comparison of one zipped pair: TRUE when the pair passes
IntervalPairSame(orig, mod) ==
    IF orig.xml_type = "IntervalsT"
    THEN ~(orig.repeat # mod.repeat
             \/ orig.on_duration # mod.on_duration
             \/ orig.off_duration # mod.off_duration
             \/ orig.on_power # mod.on_power
             \/ orig.off_power # mod.off_power)
    ELSE ~(orig.duration # mod.duration) /\ ~(orig.power # mod.power)

validate_interval_preservation(original_w, modified_w) ==
    LET original_intervals == get_intervals(original_w)
        modified_intervals == get_intervals(modified_w)
    IN  IF Len(original_intervals) # Len(modified_intervals) THEN FALSE
        ELSE \A i \in 1..Len(original_intervals) :
                IntervalPairSame(original_intervals[i], modified_intervals[i])

\* ---------------------------------------------------------------------------
\* modifier.py: orchestrator
\* ---------------------------------------------------------------------------
\* the shorten branch with the cut undone when the validation fails
ShortenOutcome_RollsBack(original_w, cut, validate) ==
    IF validate /\ cut.result.status = "modified"
         /\ ~validate_interval_preservation(original_w, cut.workout)
    THEN [original |-> original_w,
          modified |-> original_w,
          result |-> [cut.result EXCEPT !.warning = ValidationWarning]]
    ELSE [original |-> original_w, modified |-> cut.workout,
          result |-> cut.result]

\* the shorten branch of modify_workout (modifier.py:351-364): the cuts are
\* applied to the copy and, with validate, the intervals are compared
ShortenOutcome(original_w, cut, validate) ==
    [original |-> original_w,
     modified |-> cut.workout,
     result |-> IF validate /\ cut.result.status = "modified"
                   /\ ~validate_interval_preservation(original_w, cut.workout)
                THEN [cut.result EXCEPT !.warning = ValidationWarning]
                ELSE cut.result]

\* modify_workout(workout, target_duration, validate): the two copies it
\* makes, as the call leaves them, and the result; `modified` is the workout
\* returned
modify_workout(workout, target_duration, validate) ==
    LET original_w == WorkoutCopy(workout)
        modified_w == WorkoutCopy(workout)
        action == determine_modification_action(modified_w, target_duration)
    IN  CASE action = "skip" ->
               [original |-> original_w,
                modified |-> [modified_w EXCEPT
                                 !.modification_status = "skipped"],
                result |-> ModificationResult("skipped",
                              modified_w.original_duration, 0,
                              modified_w.original_duration,
                              IF modified_w.skip_reason # ""
                              THEN modified_w.skip_reason ELSE "Skipped",
                              NoWarning, EmptyCut)]
          [] action = "keep_unchanged" ->
               [original |-> original_w,
                modified |-> [modified_w EXCEPT
                                 !.modification_status = "unchanged"],
                result |-> ModificationResult("unchanged",
                              modified_w.original_duration,
                              modified_w.total_duration, 0,
                              IF modified_w.is_weekend_ride
                              THEN "Weekend ride"
                              ELSE "Under target duration",
                              NoWarning, EmptyCut)]
          [] OTHER ->
               ShortenOutcome(original_w,
                              apply_proportional_cuts(modified_w,
                                                      target_duration),
                              validate)

\* the workout passed to modify_workout with the argument bound to the
\* workout the call works on, instead of to a copy of it
ArgumentAfter_Aliased(workout, outcome) == outcome.modified

\* the workout passed to modify_workout as the call leaves it: the call
\* assigns to fields of its two copies only (modifier.py:319-320, 339, 354,
\* 358), and the copies share no segment with the argument (models.py:33-49,
\* 115-136)
ArgumentAfter(workout, outcome) == workout

\* ---------------------------------------------------------------------------
\* State machine: one workout through the engine
\* ---------------------------------------------------------------------------
\* bound on the number of segments of a workout
MaxSegs == 3

\* the segments workouts are built from.  Durations are chosen around the
\* floors (MIN_WARMUP_DURATION, MIN_COOLDOWN_DURATION = 300):
\* warmups under and over the floor, two endurance blocks of different
\* length, a high-intensity SteadyState, an IntervalsT whose own duration
\* field is 0, an IntervalsT whose repeat is 0, a FreeRide
SegmentCatalog ==
    { WorkoutSegment("Warmup", 100, None, 50, 75, None, None, None, None, None),
      WorkoutSegment("Warmup", 400, None, 50, 75, None, None, None, None, None),
      WorkoutSegment("Cooldown", 400, None, 75, 50, None, None, None, None, None),
      WorkoutSegment("SteadyState", 700, 65, None, None, None, None, None, None, None),
      WorkoutSegment("SteadyState", 1000, 65, None, None, None, None, None, None, None),
      WorkoutSegment("SteadyState", 500, 100, None, None, None, None, None, None, None),
      WorkoutSegment("IntervalsT", 0, None, None, None, 2, 100, 50, 110, 50),
      WorkoutSegment("IntervalsT", 200, None, None, None, 0, 100, 50, 110, 50),
      WorkoutSegment("FreeRide", 200, None, None, None, None, None, None, None, None) }

SegmentLists == UNION { [1..n -> SegmentCatalog] : n \in 0..MaxSegs }

\* target_duration values passed to the engine
Targets == {500, 2000}

\* what week selection left on the workout: nothing, the protected ride,
\* or the workout to skip (selector.py:58/66/70 and 104-105/117-118)
Selections ==
    { [is_weekend_ride |-> FALSE, should_skip |-> FALSE, skip_reason |-> ""],
      [is_weekend_ride |-> TRUE, should_skip |-> FALSE, skip_reason |-> ""],
      [is_weekend_ride |-> FALSE, should_skip |-> TRUE,
       skip_reason |-> "Recovery workout in high-volume week"] }

NoResult == ModificationResult("none", 0, 0, 0, "", NoWarning, EmptyCut)

VARIABLES
    workout,    \* the Workout the caller holds and passes to the engine
    target,     \* target_duration of the run
    original,   \* the workout as it was when the last call was made
    modified,   \* the workout the last call returned (or changed in place)
    result,     \* the ModificationResult of the last call
    pc,         \* "selected", "modified", "remodified", "cut"; in a run of
                \* main: "main", "configured", "scanned", "selecting",
                \* "modifying", "done", "failed"
    args,       \* the parsed command line of main
    config,     \* the attributes of the module config
    workouts,   \* the list scan_directory returned, as it was returned
    weeks,      \* week number -> the week's workouts (the objects of
                \* workouts; their fields are followed here)
    week_pos,   \* place in sorted(weeks.keys()) of the loop running
    item_pos,   \* place in the week of the loop over its workouts
    all_results, \* the results main collects
    call,       \* the last call made of a function on its own: its name
                \* and its arguments as they were passed
    returned    \* what that call returned

engine_vars == <<workout, target, original, modified, result>>

run_vars == <<args, config, workouts, weeks, week_pos, item_pos, all_results>>

call_vars == <<call, returned>>

vars == <<workout, target, original, modified, result, pc, args, config,
          workouts, weeks, week_pos, item_pos, all_results, call, returned>>

\* the command line with no flag given (the defaults of create_parser)
DefaultArgs ==
    [target_duration |-> 75, min_warmup |-> 5, min_cooldown |-> 5,
     skip_threshold |-> 5]

\* the module config as imported
ImportedConfig ==
    [TARGET_WEEKDAY_DURATION |-> TARGET_WEEKDAY_DURATION,
     MIN_WARMUP_DURATION |-> MIN_WARMUP_DURATION,
     MIN_COOLDOWN_DURATION |-> MIN_COOLDOWN_DURATION,
     SKIP_THRESHOLD_WORKOUTS |-> SKIP_THRESHOLD_WORKOUTS]

\* no function called on its own
NoCall ==
    /\ call = [fn |-> "none"]
    /\ returned = None

\* no run of main under way
NoRun ==
    /\ args = DefaultArgs
    /\ config = ImportedConfig
    /\ workouts = <<>>
    /\ weeks = <<>>
    /\ week_pos = 0
    /\ item_pos = 0
    /\ all_results = <<>>

\* a workout as parse_zwo_file built it (pending, total and original duration
\* derived in __post_init__) and week selection flagged it
Init ==
    /\ \E segments \in SegmentLists, sel \in Selections :
          workout = Workout(segments, 0, 0, sel.is_weekend_ride,
                            sel.should_skip, "pending", sel.skip_reason)
    /\ target \in Targets
    /\ original = workout
    /\ modified = workout
    /\ result = NoResult
    /\ pc = "selected"
    /\ NoRun
    /\ NoCall

\* main.py:202: modified, result = modify_workout(workout, target_duration)
ModifyWorkout ==
    /\ pc = "selected"
    /\ LET r == modify_workout(workout, target, TRUE)
       IN  /\ workout' = ArgumentAfter(workout, r)
           /\ original' = r.original
           /\ modified' = r.modified
           /\ result' = r.result
    /\ pc' = "modified"
    /\ UNCHANGED target
    /\ UNCHANGED run_vars
    /\ UNCHANGED call_vars

\* modify_workout called again, with the same target, on the workout the
\* first call returned
ModifyAgain ==
    /\ pc = "modified"
    /\ LET r == modify_workout(modified, target, TRUE)
       IN  /\ workout' = ArgumentAfter(modified, r)
           /\ original' = r.original
           /\ modified' = r.modified
           /\ result' = r.result
    /\ pc' = "remodified"
    /\ UNCHANGED target
    /\ UNCHANGED run_vars
    /\ UNCHANGED call_vars

\* apply_proportional_cuts called on the workout itself: the workout is
\* changed in place
ApplyCuts ==
    /\ pc = "selected"
    /\ LET r == apply_proportional_cuts(workout, target)
       IN  /\ original' = workout
           /\ workout' = r.workout
           /\ modified' = r.workout
           /\ result' = r.result
    /\ pc' = "cut"
    /\ UNCHANGED target
    /\ UNCHANGED run_vars
    /\ UNCHANGED call_vars

Next == ModifyWorkout \/ ModifyAgain \/ ApplyCuts

Spec == Init /\ [][Next]_vars

\* ---------------------------------------------------------------------------
\* State machine: one workout with Ramp segments through the engine
\* ---------------------------------------------------------------------------
\* the segments the workouts with ramps are built from: a flat Ramp, a rising
\* and a falling one, a Ramp rising from power 0, an endurance block, a
\* high-intensity block, an IntervalsT
RampCatalog ==
    { WorkoutSegment("Ramp", 400, None, 60, 60, None, None, None, None, None),
      WorkoutSegment("Ramp", 400, None, 50, 75, None, None, None, None, None),
      WorkoutSegment("Ramp", 400, None, 75, 50, None, None, None, None, None),
      WorkoutSegment("Ramp", 400, None, 0, 75, None, None, None, None, None),
      WorkoutSegment("SteadyState", 1000, 65, None, None, None, None, None, None, None),
      WorkoutSegment("SteadyState", 500, 100, None, None, None, None, None, None, None),
      WorkoutSegment("IntervalsT", 300, None, None, None, 2, 100, 50, 110, 50) }

RampLists == UNION { [1..n -> RampCatalog] : n \in 0..MaxSegs }

RampInit ==
    /\ \E segments \in RampLists, sel \in Selections :
          workout = Workout(segments, 0, 0, sel.is_weekend_ride,
                            sel.should_skip, "pending", sel.skip_reason)
    /\ target \in Targets
    /\ original = workout
    /\ modified = workout
    /\ result = NoResult
    /\ pc = "selected"
    /\ NoRun
    /\ NoCall

RampSpec == RampInit /\ [][Next]_vars

\* ---------------------------------------------------------------------------
\* State machine: a run of main over a directory of workouts
\* ---------------------------------------------------------------------------
\* bound on the number of workout files in the directory
MaxWorkouts == 5

\* the workout files plans are made of, as [keywords, segments]: a recovery
\* ride named as one, a lighter recovery ride, a long endurance ride
\* (over 5400 s), an interval session of 4400 s (its IntervalsT has no
\* Duration attribute: parse_segment_element derives 4 x (600 + 300))
PlanCatalog ==
    { [keywords |-> {"recovery"},
       segments |-> <<WorkoutSegment("SteadyState", 1800, 50, None, None, None, None, None, None, None)>>],
      [keywords |-> {},
       segments |-> <<WorkoutSegment("SteadyState", 1200, 45, None, None, None, None, None, None, None)>>],
      [keywords |-> {},
       segments |-> <<WorkoutSegment("Warmup", 600, None, 50, 75, None, None, None, None, None),
                      WorkoutSegment("SteadyState", 5400, 65, None, None, None, None, None, None, None)>>],
      [keywords |-> {},
       segments |-> <<WorkoutSegment("Warmup", 400, None, 50, 75, None, None, None, None, None),
                      WorkoutSegment("IntervalsT", 3600, None, None, None, 4, 600, 300, 105, 50),
                      WorkoutSegment("Cooldown", 400, None, 75, 50, None, None, None, None, None)>>] }

PlanLists == UNION { [1..n -> PlanCatalog] : n \in 0..MaxWorkouts }

\* how the filenames number the workouts: one week and no day in any
\* filename (day_number 0 for all); days 1, 2, ... with the last file in a
\* second week
Layouts == {"no_days", "two_weeks"}

WeekOf(layout, i, n) == IF layout = "two_weeks" /\ i = n /\ n > 1 THEN 2 ELSE 1

DayOf(layout, i) == IF layout = "no_days" THEN 0 ELSE i

\* scan_directory: the parsed workouts, sorted by (week_number, day_number)
scan_directory(plan, layout) ==
    [i \in 1..Len(plan) |->
        ScannedWorkout([index |-> i, keywords |-> plan[i].keywords],
                       WeekOf(layout, i, Len(plan)), DayOf(layout, i),
                       Workout(plan[i].segments, 0, 0, FALSE, FALSE,
                               "pending", ""))]

\* the command lines tried: no flag; a lower target and threshold with higher
\* floors; a higher target and threshold with lower floors
CliArgs ==
    { DefaultArgs,
      [target_duration |-> 60, min_warmup |-> 10, min_cooldown |-> 10,
       skip_threshold |-> 3],
      [target_duration |-> 90, min_warmup |-> 3, min_cooldown |-> 3,
       skip_threshold |-> 6] }

RECURSIVE SortedKeys(_)
\* sorted(weeks.keys())
SortedKeys(keys) ==
    IF keys = {} THEN <<>>
    ELSE LET least == CHOOSE k \in keys : \A other \in keys : k <= other
         IN  <<least>> \o SortedKeys(keys \ {least})

\* week_num of the loop running
WeekNum == SortedKeys(DOMAIN weeks)[week_pos]

RunInit ==
    /\ pc = "main"
    /\ args \in CliArgs
    /\ config = ImportedConfig
    /\ workout = Workout(<<>>, 0, 0, FALSE, FALSE, "pending", "")
    /\ target = 0
    /\ original = workout
    /\ modified = workout
    /\ result = NoResult
    /\ workouts = <<>>
    /\ weeks = <<>>
    /\ week_pos = 0
    /\ item_pos = 0
    /\ all_results = <<>>
    /\ NoCall

\* main.py:151-159: target_duration and the attributes of config are set
\* from the command line
ConfigOverride ==
    /\ pc = "main"
    /\ target' = args.target_duration * 60
    /\ config' = [TARGET_WEEKDAY_DURATION |-> args.target_duration * 60,
                  MIN_WARMUP_DURATION |-> args.min_warmup * 60,
                  MIN_COOLDOWN_DURATION |-> args.min_cooldown * 60,
                  SKIP_THRESHOLD_WORKOUTS |-> args.skip_threshold]
    /\ pc' = "configured"
    /\ UNCHANGED <<workout, original, modified, result, args, workouts,
                   weeks, week_pos, item_pos, all_results, call_vars>>

\* main.py:161-167: workouts = scan_directory(...); main gives up when there
\* are none
ScanDirectory ==
    /\ pc = "configured"
    /\ \E plan \in PlanLists, layout \in Layouts :
          workouts' = scan_directory(plan, layout)
    /\ pc' = IF workouts' = <<>> THEN "failed" ELSE "scanned"
    /\ UNCHANGED <<engine_vars, args, config, weeks, week_pos, item_pos,
                   all_results, call_vars>>

\* process_all_weeks, first line: weeks = group_by_week(workouts)
GroupByWeek ==
    /\ pc = "scanned"
    /\ weeks' = group_by_week(workouts)
    /\ week_pos' = 1
    /\ pc' = "selecting"
    /\ UNCHANGED <<engine_vars, args, config, workouts, item_pos,
                   all_results, call_vars>>

\* process_all_weeks, one turn of its loop: process_week_selection on the
\* next week; after the last week main goes on to its own loop
ProcessWeek ==
    /\ pc = "selecting"
    /\ weeks' = [weeks EXCEPT
                   ![WeekNum] = process_week_selection(@, target)]
    /\ IF week_pos < Cardinality(DOMAIN weeks)
       THEN /\ week_pos' = week_pos + 1
            /\ UNCHANGED <<pc, item_pos>>
       ELSE /\ week_pos' = 1
            /\ item_pos' = 1
            /\ pc' = "modifying"
    /\ UNCHANGED <<engine_vars, args, config, workouts, all_results,
                   call_vars>>

\* the loop position after the workout at item_pos of week week_pos
NextPosition_SkipsOne(loop_weeks, loop_week_pos, loop_item_pos) ==
    LET week_len == Len(loop_weeks[SortedKeys(DOMAIN loop_weeks)[loop_week_pos]])
    IN  IF loop_item_pos + 1 < week_len
        THEN [week_pos |-> loop_week_pos, item_pos |-> loop_item_pos + 2,
              done |-> FALSE]
        ELSE IF loop_week_pos < Cardinality(DOMAIN loop_weeks)
        THEN [week_pos |-> loop_week_pos + 1, item_pos |-> 1, done |-> FALSE]
        ELSE [week_pos |-> loop_week_pos, item_pos |-> loop_item_pos,
              done |-> TRUE]

\* main.py:197-201: the next workout of the week, else the first of the next
\* week, else the loops are over
NextPosition(loop_weeks, loop_week_pos, loop_item_pos) ==
    LET week_len == Len(loop_weeks[SortedKeys(DOMAIN loop_weeks)[loop_week_pos]])
    IN  IF loop_item_pos < week_len
        THEN [week_pos |-> loop_week_pos, item_pos |-> loop_item_pos + 1,
              done |-> FALSE]
        ELSE IF loop_week_pos < Cardinality(DOMAIN loop_weeks)
        THEN [week_pos |-> loop_week_pos + 1, item_pos |-> 1, done |-> FALSE]
        ELSE [week_pos |-> loop_week_pos, item_pos |-> loop_item_pos,
              done |-> TRUE]

\* the result as main collects it: ModificationResult carries the filename
\* of the workout it is about
CollectedResult(filename, r) == [filename |-> filename, result |-> r]

\* main.py:201-204, one turn of the inner loop:
\* modified, result = modify_workout(workout, target_duration);
\* all_results.append(result)
ModifyNext ==
    /\ pc = "modifying"
    /\ LET r == modify_workout(weeks[WeekNum][item_pos].workout, target, TRUE)
       IN  /\ workout' = ArgumentAfter(weeks[WeekNum][item_pos].workout, r)
           /\ original' = r.original
           /\ modified' = r.modified
           /\ result' = r.result
           /\ all_results' =
                  Append(all_results,
                         CollectedResult(weeks[WeekNum][item_pos].filename,
                                         r.result))
    /\ LET next == NextPosition(weeks, week_pos, item_pos)
       IN  /\ week_pos' = next.week_pos
           /\ item_pos' = next.item_pos
           /\ pc' = IF next.done THEN "done" ELSE "modifying"
    /\ UNCHANGED <<target, args, config, workouts, weeks, call_vars>>

RunNext ==
    \/ ConfigOverride
    \/ ScanDirectory
    \/ GroupByWeek
    \/ ProcessWeek
    \/ ModifyNext

RunSpec == RunInit /\ [][RunNext]_vars

\* ---------------------------------------------------------------------------
\* State machine: the classifier and the validator called on their own
\* ---------------------------------------------------------------------------
\* PowerLow / PowerHigh of the Ramp segments: the attribute missing, 0, and
\* two values on either side of each other
RampPowers == {None, 0, 60, 75}

\* parse_segment_element on <Ramp Duration="400" PowerLow=.. PowerHigh=..>
RampSegments ==
    { WorkoutSegment("Ramp", 400, None, lo, hi, None, None, None, None, None) :
        lo \in RampPowers, hi \in RampPowers }

\* the segments the workouts to classify are built from: a long and a short
\* low-intensity block, a block between Z2 and Z4, a high-intensity block,
\* an IntervalsT of total 0 (Repeat="0", no Duration), an IntervalsT of
\* total 300 (no Duration: 2 x (100 + 50) derived), a warmup
ClassifierCatalog ==
    { WorkoutSegment("SteadyState", 6000, 65, None, None, None, None, None, None, None),
      WorkoutSegment("SteadyState", 1800, 50, None, None, None, None, None, None, None),
      WorkoutSegment("SteadyState", 1000, 80, None, None, None, None, None, None, None),
      WorkoutSegment("SteadyState", 500, 100, None, None, None, None, None, None, None),
      WorkoutSegment("IntervalsT", 0, None, None, None, 0, 100, 50, 110, 50),
      WorkoutSegment("IntervalsT", 300, None, None, None, 2, 100, 50, 110, 50),
      WorkoutSegment("Warmup", 400, None, 50, 75, None, None, None, None, None) }

ClassifierLists == UNION { [1..n -> ClassifierCatalog] : n \in 0..MaxSegs }

\* the filenames, as the keyword families they contain
Filenames == { {}, {"recovery"}, {"endurance"}, {"interval"},
               {"endurance", "interval"} }

\* bound on the number of segments of the workouts given to the validator
MaxPairSegs == 2

\* the segments of the workouts given to the validator: two IntervalsT that
\* differ in Repeat, an IntervalsT with a Duration and no other attribute,
\* two protected SteadyState that differ in power, an endurance block
ValidatorCatalog ==
    { WorkoutSegment("IntervalsT", 300, None, None, None, 2, 100, 50, 110, 50),
      WorkoutSegment("IntervalsT", 450, None, None, None, 3, 100, 50, 110, 50),
      WorkoutSegment("IntervalsT", 500, None, None, None, None, None, None, None, None),
      WorkoutSegment("SteadyState", 500, 100, None, None, None, None, None, None, None),
      WorkoutSegment("SteadyState", 500, 95, None, None, None, None, None, None, None),
      WorkoutSegment("SteadyState", 700, 65, None, None, None, None, None, None, None) }

ValidatorLists == UNION { [1..n -> ValidatorCatalog] : n \in 0..MaxPairSegs }

\* a workout as parse_zwo_file built it from the segments
Parsed(segments) == Workout(segments, 0, 0, FALSE, FALSE, "pending", "")

CallInit ==
    /\ pc = "caller"
    /\ workout = Parsed(<<>>)
    /\ target = 0
    /\ original = workout
    /\ modified = workout
    /\ result = NoResult
    /\ NoRun
    /\ NoCall

\* classify_segment(segment)
CallClassifySegment ==
    /\ pc = "caller"
    /\ \E segment \in SegmentCatalog \cup RampSegments :
          /\ call' = [fn |-> "classify_segment", segment |-> segment]
          /\ returned' = classify_segment(segment)
    /\ pc' = "returned"
    /\ UNCHANGED <<engine_vars, run_vars>>

\* classify_from_segments(workout.segments, workout.total_duration), as
\* classify_workout calls it (classifier.py:28)
CallClassifyFromSegments ==
    /\ pc = "caller"
    /\ \E segments \in ClassifierLists :
          /\ workout' = Parsed(segments)
          /\ call' = [fn |-> "classify_from_segments",
                      segments |-> workout'.segments,
                      total_duration |-> workout'.total_duration]
          /\ returned' = classify_from_segments(workout'.segments,
                                                workout'.total_duration)
    /\ pc' = "returned"
    /\ UNCHANGED <<target, original, modified, result, run_vars>>

\* classify_workout(workout): the workout is left in `workouts` as the call
\* leaves it
CallClassifyWorkout ==
    /\ pc = "caller"
    /\ \E filename \in Filenames, segments \in ClassifierLists :
          LET w == ScannedWorkout([index |-> 1, keywords |-> filename],
                                  1, 0, Parsed(segments))
          IN  /\ call' = [fn |-> "classify_workout", workout |-> w]
              /\ returned' = classify_workout(filename, w.workout)
              /\ workouts' = <<[w EXCEPT !.classification = returned']>>
    /\ pc' = "returned"
    /\ UNCHANGED <<engine_vars, args, config, weeks, week_pos, item_pos,
                   all_results>>

\* validate_interval_preservation(original, modified): the two workouts are
\* left in `original` and `modified` as the call leaves them (it assigns to
\* neither)
CallValidate ==
    /\ pc = "caller"
    /\ \E a \in ValidatorLists, b \in ValidatorLists :
          /\ call' = [fn |-> "validate_interval_preservation",
                      original |-> Parsed(a), modified |-> Parsed(b)]
          /\ original' = Parsed(a)
          /\ modified' = Parsed(b)
          /\ returned' = validate_interval_preservation(Parsed(a), Parsed(b))
    /\ pc' = "returned"
    /\ UNCHANGED <<workout, target, result, run_vars>>

CallNext ==
    \/ CallClassifySegment
    \/ CallClassifyFromSegments
    \/ CallClassifyWorkout
    \/ CallValidate

CallSpec == CallInit /\ [][CallNext]_vars

\* ---------------------------------------------------------------------------
\* Properties
\* ---------------------------------------------------------------------------
\* modify_workout has returned
Called == pc \in {"modified", "remodified"}

\* the last call ran apply_proportional_cuts: called directly, or by
\* modify_workout on a workout that is not to be skipped, is not the
\* protected ride and is over target
CutRan ==
    \/ pc = "cut"
    \/ /\ Called
       /\ ~original.should_skip
       /\ ~original.is_weekend_ride
       /\ original.total_duration > target

\* the cut plan of the workout as it was passed
CutInfo == calculate_cut_requirements(original, target)

IsProtected(s) ==
    \/ s.xml_type = "IntervalsT"
    \/ s.xml_type = "SteadyState" /\ s.power # None /\ s.power >= ZONE_3_MAX

\* the fields of a protected segment that define it
ProtectedView(s) ==
    IF s.xml_type = "IntervalsT"
    THEN <<"IntervalsT", s.repeat, s.on_duration, s.off_duration,
           s.on_power, s.off_power>>
    ELSE <<"SteadyState", s.duration, s.power>>

ProtectedSeq(w) ==
    LET p == SelectSeq(w.segments, IsProtected)
    IN  [i \in 1..Len(p) |-> ProtectedView(p[i])]

\* the warmup and cooldown segments of a workout, in order
WarmCoolSeq(w) ==
    SelectSeq(w.segments,
              LAMBDA s : classify_segment(s) \in {"warmup", "cooldown"})

\* C1: in every workout modify_workout returns with status 'modified' the
\* ordered sequence of protected segments (IntervalsT, SteadyState with
\* power >= 0.90) is field for field the one of the workout passed in.
C1_IntervalInvariance ==
    (Called /\ result.status = "modified")
        => ProtectedSeq(modified) = ProtectedSeq(workout)

\* C2: every result of modify_workout has new_duration <= original_duration
\* and time_saved >= 0.
C2_Monotonic ==
    Called => /\ result.new_duration <= result.original_duration
              /\ result.time_saved >= 0

\* C3: after apply_proportional_cuts the warmup segments sum to at least
\* min(MIN_WARMUP_DURATION, their sum before), and the cooldown segments to
\* at least min(MIN_COOLDOWN_DURATION, their sum before).
C3_FloorRespect ==
    CutRan =>
        /\ PoolDuration(modified.segments, "warmup")
             >= Min(MIN_WARMUP_DURATION,
                    PoolDuration(original.segments, "warmup"))
        /\ PoolDuration(modified.segments, "cooldown")
             >= Min(MIN_COOLDOWN_DURATION,
                    PoolDuration(original.segments, "cooldown"))

\* the warmup pass has run and brought a warmup pool down
C3_Witness ==
    /\ CutRan
    /\ "warmup" \in DOMAIN result.segments_cut
    /\ PoolDuration(original.segments, "warmup") > MIN_WARMUP_DURATION
    /\ PoolDuration(modified.segments, "warmup")
         < PoolDuration(original.segments, "warmup")

\* C4 as stated: should_skip, status 'skipped', and (new_duration = 0 and
\* time_saved = original_duration) are equivalent for every result of
\* modify_workout.
C4_SkipEquivalence ==
    Called =>
        /\ workout.should_skip <=> (result.status = "skipped")
        /\ (result.status = "skipped")
             <=> (result.new_duration = 0
                    /\ result.time_saved = result.original_duration)

\* C4 amended: should_skip holds exactly when the status is 'skipped', and a
\* skipped result has new_duration = 0 and time_saved = original_duration
\* (the converse is not claimed).
C4_SkipSemantics ==
    Called =>
        /\ workout.should_skip <=> (result.status = "skipped")
        /\ (result.status = "skipped")
             => (result.new_duration = 0
                   /\ result.time_saved = result.original_duration)

\* a workout of positive duration has been skipped
C4_Witness ==
    /\ Called
    /\ workout.should_skip
    /\ result.status = "skipped"
    /\ result.original_duration > 0
    /\ result.new_duration = 0

\* C5 as stated: for a workout that is not skipped the status is 'unchanged'
\* exactly when no segment was altered or removed.
C5_UnchangedIffUntouched ==
    (Called /\ result.status # "skipped") =>
        ((result.status = "unchanged")
            <=> (modified.segments = workout.segments))

\* C5 amended: for a workout that is not skipped the status is 'unchanged'
\* exactly when the workout is the protected ride or is not over target, and
\* then no segment was altered or removed; a workout over target that is not
\* the protected ride is 'modified' whether or not a segment changed.
C5_UnchangedSemantics ==
    (Called /\ result.status # "skipped") =>
        /\ (result.status = "unchanged")
             <=> (workout.is_weekend_ride \/ workout.total_duration <= target)
        /\ (result.status = "unchanged")
             => (modified.segments = workout.segments)
        /\ (result.status # "unchanged") => (result.status = "modified")

\* a workout over target with nothing cuttable: no segment changed and the
\* status is 'modified'
C5_Witness ==
    /\ Called
    /\ result.status = "modified"
    /\ workout.segments # <<>>
    /\ modified.segments = workout.segments

\* C6 as stated: a second modify_workout, same target, on a returned workout
\* whose total_duration is <= target gives 'unchanged', no cuts and the same
\* segments.
C6_Idempotence ==
    (pc = "remodified" /\ workout.total_duration <= target) =>
        /\ result.status = "unchanged"
        /\ result.segments_cut = EmptyCut
        /\ modified.segments = workout.segments

\* C6 amended: the same, for a returned workout that is not marked
\* should_skip.
C6_IdempotenceUnlessSkipped ==
    (pc = "remodified" /\ workout.total_duration <= target
       /\ ~workout.should_skip) =>
        /\ result.status = "unchanged"
        /\ result.segments_cut = EmptyCut
        /\ modified.segments = workout.segments

\* the second call was made on a workout the first call had shortened to
\* the target or under
C6_Witness ==
    /\ pc = "remodified"
    /\ workout.modification_status = "modified"
    /\ workout.total_duration < workout.original_duration
    /\ workout.total_duration <= target
    /\ result.status = "unchanged"

RECURSIVE ClaimedSum(_)
\* repeat x (on_duration + off_duration) for every IntervalsT segment,
\* duration for every other segment
ClaimedSum(segments) ==
    IF segments = <<>> THEN 0
    ELSE LET s == Head(segments)
         IN  (IF s.xml_type = "IntervalsT"
              THEN s.repeat * (s.on_duration + s.off_duration)
              ELSE s.duration) + ClaimedSum(Tail(segments))

RECURSIVE AmendedSum(_)
\* repeat x (on_duration + off_duration) for an IntervalsT segment whose
\* repeat is not 0, duration for every other segment
AmendedSum(segments) ==
    IF segments = <<>> THEN 0
    ELSE LET s == Head(segments)
         IN  (IF s.xml_type = "IntervalsT" /\ s.repeat # 0
              THEN s.repeat * (s.on_duration + s.off_duration)
              ELSE s.duration) + AmendedSum(Tail(segments))

\* the workouts of the state: the caller's, the snapshot and the one returned
Workouts == {workout, original, modified}

C8_InfeasibleBestEffort ==
    (CutRan /\ ~CutInfo.is_feasible) =>
        /\ result.status = "modified"
        /\ result.warning # NoWarning
        /\ modified.total_duration > target

\* C9: when the cut is infeasible the seconds removed from the cuttable
\* segments equal max_cuttable.
C9_InfeasibleCutsMaximum ==
    (CutRan /\ ~CutInfo.is_feasible) =>
        CuttableDuration(original.segments)
            - CuttableDuration(modified.segments) = CutInfo.max_cuttable

\* C10 as stated: if the endurance pool is at least time_to_cut, no warmup
\* or cooldown duration changes and segments_cut has no key but 'endurance'.
C10_EnduranceSuffices ==
    (CutRan /\ PoolDuration(original.segments, "endurance")
                 >= CutInfo.time_to_cut) =>
        /\ WarmCoolSeq(modified) = WarmCoolSeq(original)
        /\ DOMAIN result.segments_cut \subseteq {"endurance"}

\* C10 amended: if nothing is to be cut, or the endurance pass removed at
\* least time_to_cut, no warmup or cooldown duration changes and segments_cut
\* has no key but 'endurance'.
C10_EndurancePassSuffices ==
    (CutRan /\ (CutInfo.time_to_cut = 0
                  \/ ("endurance" \in DOMAIN result.segments_cut
                        /\ result.segments_cut["endurance"]
                             >= CutInfo.time_to_cut))) =>
        /\ WarmCoolSeq(modified) = WarmCoolSeq(original)
        /\ DOMAIN result.segments_cut \subseteq {"endurance"}

\* the endurance pass removed all of time_to_cut from a workout whose warmup
\* is over its floor
C10_Witness ==
    /\ CutRan
    /\ CutInfo.time_to_cut > 0
    /\ "endurance" \in DOMAIN result.segments_cut
    /\ result.segments_cut["endurance"] >= CutInfo.time_to_cut
    /\ PoolDuration(original.segments, "warmup") > MIN_WARMUP_DURATION

\* the status determine_modification_action's priority gives a workout:
\* should_skip first, then the protected ride, then the target
ExpectedStatus(w, target_duration) ==
    IF w.should_skip THEN "skipped"
    ELSE IF w.is_weekend_ride THEN "unchanged"
    ELSE IF w.total_duration <= target_duration THEN "unchanged"
    ELSE "modified"

\* C11: modify_workout on a pending workout takes the one transition the
\* priority should_skip, protected ride, total_duration <= target, shorten
\* chooses; the returned workout's modification_status equals result.status
\* and is skipped, unchanged or modified, never pending; skip gives
\* new_duration 0, keep_unchanged leaves every segment as it was, shorten
\* gives 'modified' whether or not the target was reached.
C11_OneTransition ==
    (pc = "modified") =>
        /\ workout.modification_status = "pending"
        /\ result.status = ExpectedStatus(workout, target)
        /\ modified.modification_status = result.status
        /\ result.status \in {"skipped", "unchanged", "modified"}
        /\ (result.status = "skipped") => (result.new_duration = 0)
        /\ (result.status = "unchanged")
             => (modified.segments = workout.segments)

\* a pending workout was shortened without reaching the target
C11_Witness ==
    /\ pc = "modified"
    /\ workout.modification_status = "pending"
    /\ result.status = "modified"
    /\ modified.modification_status = "modified"
    /\ modified.total_duration > target

\* C12 as stated: a workout starts pending, and a further modify_workout on
\* a returned workout gives a workout with the same modification_status.
C12_OneWay ==
    /\ (pc = "selected") => (workout.modification_status = "pending")
    /\ (pc = "remodified")
         => (modified.modification_status = workout.modification_status)

\* C15: every result of modify_workout, on a fresh workout or on one an
\* earlier call returned, has time_saved = original_duration - new_duration.
C15_TimeSavedIsDifference ==
    Called =>
        (result.time_saved = result.original_duration - result.new_duration)

\* the weeks process_week_selection has returned for
SelectedWeeks ==
    IF pc = "selecting"
    THEN {SortedKeys(DOMAIN weeks)[i] : i \in 1..(week_pos - 1)}
    ELSE IF pc \in {"modifying", "done"} THEN DOMAIN weeks
    ELSE {}

\* the places in a week of the workouts marked is_weekend_ride
WeekendRides(week_workouts) ==
    {i \in 1..Len(week_workouts) : week_workouts[i].workout.is_weekend_ride}

\* the places in a week of the workouts marked should_skip
Skipped(week_workouts) ==
    {i \in 1..Len(week_workouts) : week_workouts[i].workout.should_skip}

\* the longest duration of a week
MaxDuration(week_workouts) ==
    CHOOSE d \in {week_workouts[i].workout.total_duration :
                    i \in 1..Len(week_workouts)} :
        \A i \in 1..Len(week_workouts) :
            week_workouts[i].workout.total_duration <= d

\* C13: after process_week_selection on a non-empty week whose workouts all
\* started with is_weekend_ride = false, exactly one workout of the week has
\* is_weekend_ride = true.
C13_ExactlyOneWeekendRide ==
    \A k \in SelectedWeeks : Cardinality(WeekendRides(weeks[k])) = 1

\* a week of three or more workouts that all share one day number, two of
\* them of the maximum duration, has been through selection
C13_Witness ==
    \E k \in SelectedWeeks :
        /\ Len(weeks[k]) >= 3
        /\ \A i \in 1..Len(weeks[k]) :
              weeks[k][i].day_number = weeks[k][1].day_number
        /\ \E i, j \in 1..Len(weeks[k]) :
              /\ i # j
              /\ weeks[k][i].workout.total_duration = MaxDuration(weeks[k])
              /\ weeks[k][j].workout.total_duration = MaxDuration(weeks[k])
        /\ Cardinality(WeekendRides(weeks[k])) = 1

\* C14: after process_week_selection a week has at most one workout with
\* should_skip = true, and a week with fewer workouts than the skip
\* threshold of the run has none.
C14_AtMostOneSkip ==
    \A k \in SelectedWeeks :
        /\ Cardinality(Skipped(weeks[k])) <= 1
        /\ (Len(weeks[k]) < args.skip_threshold) => (Skipped(weeks[k]) = {})

\* the workouts the claim lets identify_weekend_ride mark, for a weekday
\* target: the last workout of the highest day number if it lasts 5400 s or
\* more; else a workout of the maximum duration if that exceeds the target;
\* else the last workout of the highest day number
ClaimedWeekendRides(week_workouts, weekday_target) ==
    IF week_workouts[LastWorkoutIndex(week_workouts)].workout.total_duration
         >= 5400
    THEN {LastWorkoutIndex(week_workouts)}
    ELSE IF MaxDuration(week_workouts) > weekday_target
    THEN {i \in 1..Len(week_workouts) :
             week_workouts[i].workout.total_duration
               = MaxDuration(week_workouts)}
    ELSE {LastWorkoutIndex(week_workouts)}

\* the pool the claim has the skip taken from
ClaimedSkipPool(week_workouts) ==
    IF RecoveryPool(week_workouts) # {} THEN RecoveryPool(week_workouts)
    ELSE SkipCandidates(week_workouts)

\* the workouts of a pool no other workout of the pool scores lower than
Lightest(week_workouts, pool) ==
    {i \in pool :
        \A j \in pool : ~FracLess(week_workouts[j].difficulty_score,
                                  week_workouts[i].difficulty_score)}

\* the engine was run by main on a workout and shortened it
ShortenedInRun == pc \in {"modifying", "done"} /\ result.status = "modified"

\* C16: after main has set target duration, minimum warmup, minimum cooldown
\* and skip threshold from the command line, the floors the cuts respect,
\* the threshold identify_workouts_to_skip uses and the weekday target
\* identify_weekend_ride compares against are the command line's values.
C16_CliValuesInForce ==
    /\ \A k \in SelectedWeeks :
          /\ (Skipped(weeks[k]) # {})
               <=> (Len(weeks[k]) >= args.skip_threshold
                      /\ ClaimedSkipPool(weeks[k]) # {})
          /\ WeekendRides(weeks[k])
               \subseteq ClaimedWeekendRides(weeks[k],
                                             args.target_duration * 60)
    /\ ShortenedInRun =>
          /\ PoolDuration(modified.segments, "warmup")
               >= Min(args.min_warmup * 60,
                      PoolDuration(workout.segments, "warmup"))
          /\ PoolDuration(modified.segments, "cooldown")
               >= Min(args.min_cooldown * 60,
                      PoolDuration(workout.segments, "cooldown"))

\* C17: identify_weekend_ride marks the highest-day-number workout if it
\* lasts 5400 s or more, otherwise the maximum-duration workout of the week
\* if that duration exceeds the weekday target in force for the run,
\* otherwise the highest-day-number workout; it marks no other workout.
C17_WeekendRideChoice ==
    \A k \in SelectedWeeks :
        /\ Cardinality(WeekendRides(weeks[k])) = 1
        /\ WeekendRides(weeks[k]) \subseteq ClaimedWeekendRides(weeks[k], target)

\* C18: in a week of at least skip_threshold workouts
\* identify_workouts_to_skip marks the lowest-score workout among those
\* classified 'recovery' that are not the protected ride; if there is none,
\* the lowest-score workout among those neither protected nor classified
\* 'interval'; if both pools are empty, nothing.
C18_SkipChoice ==
    \A k \in SelectedWeeks :
        (Len(weeks[k]) >= args.skip_threshold) =>
            IF ClaimedSkipPool(weeks[k]) = {} THEN Skipped(weeks[k]) = {}
            ELSE /\ Cardinality(Skipped(weeks[k])) = 1
                 /\ Skipped(weeks[k])
                      \subseteq Lightest(weeks[k], ClaimedSkipPool(weeks[k]))

\* C19: process_week_selection classifies and scores every workout, then
\* identifies the weekend ride, then the workout to skip; after it no
\* workout has both is_weekend_ride and should_skip, and no workout
\* classified 'interval' has should_skip.
C19_SelectionOrder ==
    \A k \in SelectedWeeks :
        \A i \in 1..Len(weeks[k]) :
            /\ weeks[k][i].classification
                 = classify_workout(weeks[k][i].filename.keywords,
                                    weeks[k][i].workout)
            /\ ~(weeks[k][i].workout.is_weekend_ride
                   /\ weeks[k][i].workout.should_skip)
            /\ weeks[k][i].workout.should_skip
                 => (weeks[k][i].classification # "interval")

\* a week with a protected ride, an interval session and a workout marked
\* to skip has been through selection
C19_Witness ==
    \E k \in SelectedWeeks :
        /\ WeekendRides(weeks[k]) # {}
        /\ Skipped(weeks[k]) # {}
        /\ \E i \in 1..Len(weeks[k]) :
              weeks[k][i].classification = "interval"

\* the filenames of the results collected
ResultFiles == {all_results[i].filename : i \in 1..Len(all_results)}

\* the week of the workout of a filename
WeekOfFile(filename) ==
    CHOOSE k \in DOMAIN weeks :
        \E i \in 1..Len(weeks[k]) : weeks[k][i].filename = filename

\* C20: in a run of main, modify_workout is not called on a workout before
\* week selection has completed for its week, and each workout yields
\* exactly one ModificationResult.
C20_SelectionBeforeCutting ==
    /\ \A f \in ResultFiles : WeekOfFile(f) \in SelectedWeeks
    /\ (all_results # <<>>) => (SelectedWeeks = DOMAIN weeks)
    /\ Cardinality(ResultFiles) = Len(all_results)
    /\ (pc = "done") =>
          (ResultFiles = {workouts[i].filename : i \in 1..Len(workouts)})

\* a run over two weeks and three or more workouts has ended
C20_Witness ==
    /\ pc = "done"
    /\ Cardinality(DOMAIN weeks) = 2
    /\ Len(workouts) >= 3
    /\ Len(all_results) = Len(workouts)

\* the number of segments in the pool of a pass
PoolCount(segments, kind) ==
    Cardinality({i \in 1..Len(segments) :
                    IsCuttable(segments[i])
                      /\ classify_segment(segments[i]) = kind})

\* actual_cut of a pass of the last call, 0 when the pass did not run
CutOf(kind) ==
    IF kind \in DOMAIN result.segments_cut THEN result.segments_cut[kind]
    ELSE 0

\* the amount the last call requested of a pass: endurance_cut, warmup_cut,
\* cooldown_cut
RequestedOf(kind) ==
    CASE kind = "endurance" ->
            Min(CutInfo.time_to_cut,
                PoolDuration(original.segments, "endurance"))
      [] kind = "warmup" ->
            Min(CutInfo.time_to_cut - CutOf("endurance"),
                PoolDuration(original.segments, "warmup")
                  - MIN_WARMUP_DURATION)
      [] kind = "cooldown" ->
            Min(CutInfo.time_to_cut - CutOf("endurance") - CutOf("warmup"),
                PoolDuration(original.segments, "cooldown")
                  - MIN_COOLDOWN_DURATION)

\* the durations of the pool of a pass, as the workout was passed
PoolDurations(kind) ==
    {original.segments[i].duration : i \in
        {j \in 1..Len(original.segments) :
            IsCuttable(original.segments[j])
              /\ classify_segment(original.segments[j]) = kind}}

\* floor(duration * cut / pool)
FloorOfProduct(duration, cut, pool) == (duration * cut) \div pool

\* C21: in each pass of apply_proportional_cuts that ran, each segment's
\* reduction is the floor of its duration times the pass's cut ratio, and
\* the seconds the pass removed fall short of the amount requested of it by
\* at most the number of segments in the pass's pool.
C21_PassShortfall ==
    CutRan =>
        \A kind \in DOMAIN result.segments_cut :
            /\ \A d \in PoolDurations(kind) :
                  FloatMulTrunc(d, RequestedOf(kind),
                                PoolDuration(original.segments, kind))
                    = FloorOfProduct(d, RequestedOf(kind),
                                     PoolDuration(original.segments, kind))
            /\ RequestedOf(kind) - CutOf(kind)
                 <= PoolCount(original.segments, kind)

\* the class C22 gives a Ramp with the two powers
ClaimedRampClass(power_low, power_high) ==
    IF power_low < power_high THEN "warmup"
    ELSE IF power_low > power_high THEN "cooldown"
    ELSE "unknown"

\* classify_segment has returned from a call on a Ramp with both powers set
RampClassified ==
    /\ call.fn = "classify_segment"
    /\ call.segment.xml_type = "Ramp"
    /\ call.segment.power_low # None
    /\ call.segment.power_high # None

\* C22: classify_segment on a Ramp returns 'warmup' when power_low <
\* power_high, 'cooldown' when power_low > power_high and 'unknown' when the
\* two are equal, for every pair of power values, 0 included.
C22_RampClass ==
    RampClassified =>
        returned = ClaimedRampClass(call.segment.power_low,
                                    call.segment.power_high)

\* classify_workout has returned
WorkoutClassified == call.fn = "classify_workout"

\* the filename result F and the segment-analysis result S of the workout
\* classify_workout was called on
FilenameResult == classify_from_filename(call.workout.filename.keywords)

SegmentResult ==
    classify_from_segments(call.workout.workout.segments,
                           call.workout.workout.total_duration)

\* C23: classify_workout returns F when F is recovery or interval; else
\* interval when F is endurance and S is interval; else S when S is not
\* mixed; else F.  The value returned is the one written to
\* workout.classification, and no other field of the workout changes.
C23_Precedence ==
    WorkoutClassified =>
        /\ (FilenameResult \in {"recovery", "interval"})
              => returned = FilenameResult
        /\ (FilenameResult = "endurance" /\ SegmentResult = "interval")
              => returned = "interval"
        /\ (FilenameResult \in {"endurance", "mixed"}
              /\ SegmentResult # "mixed")
              => returned = SegmentResult
        /\ (FilenameResult \in {"endurance", "mixed"}
              /\ SegmentResult = "mixed")
              => returned = FilenameResult
        /\ workouts[1].classification = returned
        /\ [workouts[1] EXCEPT !.classification =
                                   call.workout.classification]
             = call.workout

\* classify_workout has returned from a workout named as a recovery ride
\* whose segments say interval
C23_Witness ==
    /\ WorkoutClassified
    /\ FilenameResult = "recovery"
    /\ SegmentResult = "interval"
    /\ returned = "recovery"

\* classify_from_segments has returned
SegmentsClassified == call.fn = "classify_from_segments"

\* high-intensity and low-intensity time of the segments of the call
HighIntensity ==
    SumSeq([i \in 1..Len(call.segments) |->
               HighIntensityTerm(call.segments[i])])

LowIntensity ==
    SumSeq([i \in 1..Len(call.segments) |->
               LowIntensityTerm(call.segments[i])])

\* the classification C24 gives: the ratios are 0 when total_duration is 0
ClaimedSegmentClass ==
    IF (\E i \in 1..Len(call.segments) :
           call.segments[i].xml_type = "IntervalsT")
         \/ (call.total_duration > 0
               /\ 100 * HighIntensity > 15 * call.total_duration)
    THEN "interval"
    ELSE IF call.total_duration > 5400
              /\ 10 * LowIntensity > 8 * call.total_duration
    THEN "endurance"
    ELSE IF call.total_duration < 3600 /\ call.total_duration > 0
              /\ 10 * LowIntensity > 9 * call.total_duration
    THEN "recovery"
    ELSE ClassifyByAveragePower(calculate_average_power(call.segments))

\* C24 as stated: classify_from_segments returns 'interval' whenever there
\* is an IntervalsT segment or high-intensity time is over 15% of
\* total_duration, also when total_duration is 0; otherwise 'endurance' when
\* total_duration > 5400 and low_ratio > 0.8; otherwise 'recovery' when
\* total_duration < 3600 and low_ratio > 0.9; otherwise the band of the
\* average power.
C24_SegmentClass ==
    SegmentsClassified => returned = ClaimedSegmentClass

\* C24 amended: classify_from_segments returns 'mixed' when the segment list
\* is empty or total_duration is 0, whatever the segments are; otherwise the
\* classification is the one of the claim.
C24_SegmentClassOrEmpty ==
    SegmentsClassified =>
        returned = IF call.segments = <<>> \/ call.total_duration = 0
                   THEN "mixed"
                   ELSE ClaimedSegmentClass

\* classify_from_segments has returned from segments that hold an IntervalsT
\* and have total_duration 0
C24_Witness ==
    /\ SegmentsClassified
    /\ call.total_duration = 0
    /\ \E i \in 1..Len(call.segments) :
          call.segments[i].xml_type = "IntervalsT"
    /\ returned = "mixed"

\* validate_interval_preservation has returned
Validated == call.fn = "validate_interval_preservation"

\* the ordered list of protected segments of a workout
ProtectedList(w) == SelectSeq(w.segments, IsProtected)

\* two segments agree on repeat, on_duration, off_duration, on_power,
\* off_power
AgreeOnIntervalFields(a, b) ==
    /\ a.repeat = b.repeat
    /\ a.on_duration = b.on_duration
    /\ a.off_duration = b.off_duration
    /\ a.on_power = b.on_power
    /\ a.off_power = b.off_power

\* two segments agree on duration and power
AgreeOnSteadyFields(a, b) == a.duration = b.duration /\ a.power = b.power

\* the two protected lists have equal length and agree position by
\* position, on the fields of the kind of the original's segment
ListsAgree(a, b) ==
    /\ Len(a) = Len(b)
    /\ \A i \in 1..Len(a) :
          /\ a[i].xml_type = "IntervalsT" => AgreeOnIntervalFields(a[i], b[i])
          /\ a[i].xml_type = "SteadyState" => AgreeOnSteadyFields(a[i], b[i])

CutWorkout == apply_proportional_cuts(original, target).workout

\* modify_workout has returned from its shorten branch, and the protected
\* segments of the cut workout are not those of the copy made before the cut
ProtectedSeqChanged ==
    /\ Called
    /\ CutRan
    /\ ProtectedSeq(CutWorkout) # ProtectedSeq(original)

\* C26: whenever the protected-segment sequence of the cut workout differs
\* from that of the pre-cut copy, modify_workout (validate = true) returns
\* the cut workout, not the workout as it was, and a result with status
\* 'modified' whose warning reports the validation failure.
C26_ValidationFailureKept ==
    ProtectedSeqChanged =>
        /\ result.status = "modified"
        /\ result.warning = ValidationWarning
        /\ modified = CutWorkout
        /\ modified.modification_status = "modified"
        /\ result.new_duration = modified.total_duration

\* modify_workout has returned a workout that lost a protected segment
C26_Witness ==
    /\ ProtectedSeqChanged
    /\ Len(ProtectedSeq(modified)) < Len(ProtectedSeq(original))
    /\ result.warning = ValidationWarning

\* a segment without its duration
WithoutDuration(s) == [s EXCEPT !.duration = 0]

RECURSIVE IsSubsequence(_, _)
\* the elements of `part` are found in `whole`, in their order
IsSubsequence(part, whole) ==
    IF part = <<>> THEN TRUE
    ELSE IF whole = <<>> THEN FALSE
    ELSE IF Head(part) = Head(whole)
    THEN IsSubsequence(Tail(part), Tail(whole))
    ELSE IsSubsequence(part, Tail(whole))

\* a Ramp whose two powers are equal
IsFlatRamp(s) == s.xml_type = "Ramp" /\ s.power_low = s.power_high

\* the segments C27 says survive untouched: IntervalsT, SteadyState with
\* power >= 0.90, and the segments classified recovery or unknown, the flat
\* Ramp among them, when their duration is over 0
IsUntouchable(s) ==
    /\ s.duration > 0
    /\ \/ IsProtected(s)
       \/ classify_segment(s) \in {"recovery", "unknown"}
       \/ IsFlatRamp(s)

\* C27: apply_proportional_cuts changes nothing but the duration of segments
\* classified endurance, warmup or cooldown: the segments left are segments
\* of the workout as it was, in their order, with all fields but duration as
\* they were; and every IntervalsT, SteadyState with power >= 0.90 and
\* segment classified recovery or unknown (FreeRide, SteadyState below 0.55,
\* flat Ramp) that has duration > 0 is left with all its fields unchanged.
C27_OnlyCuttableDurations ==
    CutRan =>
        /\ IsSubsequence(
               [i \in 1..Len(modified.segments) |->
                   WithoutDuration(modified.segments[i])],
               [i \in 1..Len(original.segments) |->
                   WithoutDuration(original.segments[i])])
        /\ SelectSeq(modified.segments, IsUntouchable)
             = SelectSeq(original.segments, IsUntouchable)

RECURSIVE AlignsNoLonger(_, _)
\* the segments of `after` can be matched, in order, with segments of
\* `before` that differ from them in nothing but a duration at least as long
AlignsNoLonger(after, before) ==
    IF after = <<>> THEN TRUE
    ELSE IF before = <<>> THEN FALSE
    ELSE \/ /\ WithoutDuration(Head(after)) = WithoutDuration(Head(before))
            /\ Head(after).duration <= Head(before).duration
            /\ AlignsNoLonger(Tail(after), Tail(before))
         \/ AlignsNoLonger(after, Tail(before))

\* C28: apply_proportional_cuts never lengthens a segment: every segment
\* still in the workout after the call has a duration <= its duration before
\* the call, warmup and cooldown segments shorter than the configured
\* minimum included.
C28_NeverLengthens ==
    CutRan => AlignsNoLonger(modified.segments, original.segments)

\* the number of cuttable segments of a workout
CuttableCount(segments) ==
    Cardinality({i \in 1..Len(segments) : IsCuttable(segments[i])})

\* C29: when calculate_cut_requirements reports is_feasible with
\* time_to_cut > 0, the total_duration apply_proportional_cuts leaves is at
\* most target_duration plus the number of cuttable segments.
C29_FeasibleReachesTarget ==
    (CutRan /\ CutInfo.is_feasible /\ CutInfo.time_to_cut > 0) =>
        modified.total_duration
            <= target + CuttableCount(original.segments)

====
